---- MODULE Spec2Model ----
(***************************************************************************)
(* A model of EmailMonitor (src/main.py): the IMAP poll loop               *)
(* (EmailMonitor.monitor_emails), the per-folder scan (check_folder), the  *)
(* sent-folder resolver (find_sent_folder), the message decoding helpers   *)
(* and the Discord notifier (create_embed, send_discord_webhook).          *)
(*                                                                         *)
(* Text is modelled by TLA+ strings; Len, \o and SubSeq act on them as     *)
(* Python's len, + and slicing do.  A call that may raise returns a        *)
(* record [exc, val]: exc = TRUE stands for a raised Exception.            *)
(*                                                                         *)
(* What the model takes for granted:                                       *)
(*  - logging and HealthServerLog return and never raise;                  *)
(*  - message identifiers are the sequence numbers of mail.search, so      *)
(*    the server renumbers a mailbox when a message is expunged; the       *)
(*    server delivers and expunges between two polls, not during a scan;   *)
(*  - the age of a message is one of two classes, within the 300 s limit   *)
(*    or past it, and a sleep may move a message from the first to the     *)
(*    second;                                                              *)
(*  - a KeyboardInterrupt may arrive at any step; inside a bare `except:`  *)
(*    block it is swallowed (intr), elsewhere it ends the loop.            *)
(***************************************************************************)
EXTENDS Integers, Sequences, FiniteSets, TLC

VARIABLES
    pc,              \* the position of monitor_emails in its while-loop
    first_run,       \* monitor_emails: first_run
    sent_folder,     \* monitor_emails: sent_folder (None or a folder name)
    mail,            \* the object bound to `mail`: "unbound", "open", "LOGOUT"
    processed_uids,  \* self.processed_uids: folder name -> set of ids
    stage,           \* check_folder: "select" before the search, "loop" after
    email_ids,       \* check_folder: the identifiers still to be visited
    box,             \* the server: mailbox name -> sequence of messages
    nextMid,         \* the server: how many messages were ever delivered
    posts,           \* every webhook POST made so far (history)
    ev,              \* what the last step of the program did (history)
    checked,         \* the folder kinds checked in the current cycle (history)
    failed,          \* the current cycle ended in the loop's exception handler
    lastSleep,       \* the argument of the last time.sleep call (history)
    fn               \* the state of the checks made apart from the loop: input
                     \* and output of a function, or the console's threads

vars == <<pc, first_run, sent_folder, mail, processed_uids, stage, email_ids,
          box, nextMid, posts, ev, checked, failed, lastSleep, fn>>

\* the variables of the poll loop and of the mail server
progVars == <<pc, first_run, sent_folder, mail, processed_uids, stage,
              email_ids, box, nextMid, posts, ev, checked, failed, lastSleep>>

None == "None"

----------------------------------------------------------------------------
(* Python helpers on text *)

IsSpace(c) == c \in {" ", "\n", "\t"}

\* The helpers below are functions of their text, so that a text is
\* computed once where it is passed on.

\* str.lstrip()
LStrip[s \in STRING] ==
    IF Len(s) > 0 /\ IsSpace(SubSeq(s, 1, 1))
    THEN LStrip[SubSeq(s, 2, Len(s))]
    ELSE s

\* str.rstrip()
RStrip[s \in STRING] ==
    IF Len(s) > 0 /\ IsSpace(SubSeq(s, Len(s), Len(s)))
    THEN RStrip[SubSeq(s, 1, Len(s) - 1)]
    ELSE s

\* str.strip()
Strip(s) == RStrip[LStrip[s]]

\* `c in s` for a one-character c
Contains(s, c) == \E i \in 1..Len(s) : SubSeq(s, i, i) = c

\* s.find(c) + 1, and Len(s) + 1 when c does not occur
IndexOf[s \in STRING, c \in STRING] ==
    IF Contains(s, c)
    THEN CHOOSE i \in 1..Len(s) :
            /\ SubSeq(s, i, i) = c
            /\ \A j \in 1..(i - 1) : SubSeq(s, j, j) # c
    ELSE Len(s) + 1

\* s.split(c): the pieces between the occurrences of c
Split[s \in STRING, c \in STRING] ==
    IF Contains(s, c)
    THEN <<SubSeq(s, 1, IndexOf[s, c] - 1)>>
            \o Split[SubSeq(s, IndexOf[s, c] + 1, Len(s)), c]
    ELSE <<s>>

\* sep.join(parts)
RECURSIVE Join(_, _)
Join(sep, parts) ==
    IF parts = <<>> THEN ""
    ELSE IF Len(parts) = 1 THEN parts[1]
    ELSE parts[1] \o sep \o Join(sep, Tail(parts))

Ok(v) == [exc |-> FALSE, val |-> v]
Raised == [exc |-> TRUE, val |-> ""]

----------------------------------------------------------------------------
(* Message decoding *)

\* the codecs bytes.decode can look up; any other name raises LookupError
KnownCodecs == {"utf-8", "iso-8859-1"}

\* One (part, encoding) pair of email.header.decode_header's result:
\*   [bytes |-> BOOLEAN, encoding |-> None or a codec name,
\*    text |-> the part's characters, valid |-> no undecodable byte in it]
\* part.decode(encoding) is strict; part.decode('utf-8', errors='ignore')
\* drops what it cannot decode.
DecodePart(part) ==
    IF part.bytes
    THEN IF part.encoding # None
         THEN IF part.encoding \in KnownCodecs /\ part.valid
              THEN Ok(part.text)
              ELSE Raised
         ELSE Ok(part.text)
    ELSE Ok(part.text)

RECURSIVE DecodeParts(_)
DecodeParts(parts) ==
    IF parts = <<>> THEN Ok("")
    ELSE LET h == DecodePart(Head(parts))
             t == DecodeParts(Tail(parts))
         IN IF h.exc \/ t.exc THEN Raised ELSE Ok(h.val \o t.val)

\* EmailMonitor.decode_header_value; `value` is the header as decode_header
\* splits it, <<>> for an empty or missing header
decode_header_value(value) ==
    IF value = <<>> THEN Ok("")
    ELSE LET d == DecodeParts(value)
         IN IF d.exc THEN Raised ELSE Ok(Strip(d.val))

\* payload.decode(charset, errors='ignore') of one MIME part, "" when the
\* part is skipped
PartText(part) ==
    IF part.ctype = "text/plain"
    THEN LET charset == IF part.charset = None THEN "utf-8" ELSE part.charset
         IN IF part.payload # ""
            THEN IF charset \in KnownCodecs THEN Ok(part.payload) ELSE Raised
            ELSE Ok("")
    ELSE Ok("")

RECURSIVE WalkText(_)
WalkText(parts) ==
    IF parts = <<>> THEN Ok("")
    ELSE LET h == PartText(Head(parts))
             t == WalkText(Tail(parts))
         IN IF h.exc \/ t.exc THEN Raised ELSE Ok(h.val \o t.val)

\* EmailMonitor.get_plain_text_content; msg.parts lists msg.walk() for a
\* multipart message and the message itself otherwise
get_plain_text_content(msg) ==
    LET c == IF msg.multipart
             THEN WalkText(msg.parts)
             ELSE PartText(msg.parts[1])
    IN IF c.exc THEN Raised ELSE Ok(Strip(c.val))

\* one address of parse_email_addresses
ParseAddr[a \in STRING] ==
    IF Contains(Strip(a), "<") /\ Contains(Strip(a), ">")
    THEN Split[Split[Strip(a), "<"][2], ">"][1]
    ELSE Strip(a)

\* the addresses of a list of pieces
ParseAll[parts \in Seq(STRING)] ==
    [i \in 1..Len(parts) |-> ParseAddr[parts[i]]]

\* EmailMonitor.parse_email_addresses
parse_email_addresses(address_string) ==
    IF address_string = "" THEN <<>>
    ELSE ParseAll[Split[address_string, ","]]

----------------------------------------------------------------------------
(* The notifier *)

max_content_length == 3000
COLOR_RECEIVED == 65280
COLOR_SENT == 39423
TruncMarker == "... (truncated)"

COLORS(email_type) ==
    IF email_type = "received" THEN COLOR_RECEIVED ELSE COLOR_SENT

\* content[:max_content_length] + "... (truncated)" when too long
Truncate(content) ==
    IF Len(content) > max_content_length
    THEN SubSeq(content, 1, max_content_length) \o TruncMarker
    ELSE content

\* Python's `x or default` on strings
OrElse(x, default) == IF x = "" THEN default ELSE x

\* a variant of create_embed whose test of email_type never matches, so
\* that every payload takes the "sent" layout
create_embed_sent_only(email_type, subject, sender, recipient, content, date_time) ==
    [color |-> COLORS(email_type),
     timestamp |-> <<"isoformat", date_time>>,
     title |-> "Sent",
     fields |-> <<[name |-> "To", value |-> recipient, inline |-> TRUE],
                  [name |-> "Date",
                   value |-> <<"%Y-%m-%d %H:%M:%S UTC", date_time>>,
                   inline |-> TRUE],
                  [name |-> "Subject",
                   value |-> OrElse(subject, "(No Subject)"),
                   inline |-> FALSE],
                  [name |-> "Content",
                   value |-> OrElse(Truncate(content), "(No content)"),
                   inline |-> FALSE]>>]

\* EmailMonitor.create_embed; date_time.isoformat() and strftime are
\* modelled by tagging the date with the format applied to it
create_embed(email_type, subject, sender, recipient, content, date_time) ==
    LET c == Truncate(content)
        who == IF email_type = "received"
               THEN [name |-> "From", value |-> sender, inline |-> TRUE]
               ELSE [name |-> "To", value |-> recipient, inline |-> TRUE]
    IN [color |-> COLORS(email_type),
        timestamp |-> <<"isoformat", date_time>>,
        title |-> IF email_type = "received" THEN "Received" ELSE "Sent",
        fields |-> <<who,
                     [name |-> "Date",
                      value |-> <<"%Y-%m-%d %H:%M:%S UTC", date_time>>,
                      inline |-> TRUE],
                     [name |-> "Subject",
                      value |-> OrElse(subject, "(No Subject)"),
                      inline |-> FALSE],
                     [name |-> "Content",
                      value |-> OrElse(c, "(No content)"),
                      inline |-> FALSE]>>]

\* the HTTP status the webhook counts as delivered
HTTP_NO_CONTENT == 204

\* a variant of send_discord_webhook that takes every 2xx status for a
\* success
send_discord_webhook_any_2xx(resp) ==
    IF resp.exc THEN FALSE
    ELSE resp.status \in 200..299

\* EmailMonitor.send_discord_webhook: the result for one outcome of
\* requests.post, resp = [exc |-> the call raised, status |-> status_code]
send_discord_webhook(resp) ==
    IF resp.exc THEN FALSE
    ELSE resp.status = HTTP_NO_CONTENT

\* the outcomes of requests.post the model draws from
HTTP_BAD_REQUEST == 400
PostOutcomes ==
    {[exc |-> FALSE, status |-> HTTP_NO_CONTENT],
     [exc |-> FALSE, status |-> HTTP_BAD_REQUEST],
     [exc |-> TRUE, status |-> 0]}

----------------------------------------------------------------------------
(* The messages the server delivers: a fixed set of fixtures *)

StrPart(t) == [bytes |-> FALSE, encoding |-> None, text |-> t, valid |-> TRUE]
BytesPart(t, enc) == [bytes |-> TRUE, encoding |-> enc, text |-> t, valid |-> TRUE]
TextPart(cs, t) == [ctype |-> "text/plain", charset |-> cs, payload |-> t]
OtherPart(ct) == [ctype |-> ct, charset |-> None, payload |-> "<p>x</p>"]

Templates == {"plain", "encoded", "badhdr", "badbody"}

\* Subject, From, To as decode_header splits them; date: "aware", "naive"
\* or "bad" (parsedate_to_datetime raises); the MIME structure of the body
Template(t) ==
    CASE t = "plain" ->
           [subject |-> <<StrPart("Hi")>>,
            from |-> <<StrPart("a@x.com")>>,
            to |-> <<StrPart("Bob <b@y.org>, c@z.net")>>,
            date |-> "aware",
            multipart |-> FALSE,
            parts |-> <<TextPart("utf-8", "hello\n")>>]
      [] t = "encoded" ->
           [subject |-> <<>>,
            from |-> <<BytesPart("Al", "utf-8"), BytesPart(" <al@x.com> ", None)>>,
            to |-> <<StrPart("d@w.io")>>,
            date |-> "bad",
            multipart |-> TRUE,
            parts |-> <<OtherPart("multipart/alternative"),
                        TextPart(None, ""), OtherPart("text/html")>>]
      [] t = "badhdr" ->
           [subject |-> <<BytesPart("?", "x-unknown")>>,
            from |-> <<StrPart("b@y.org")>>,
            to |-> <<StrPart("a@x.com")>>,
            date |-> "naive",
            multipart |-> FALSE,
            parts |-> <<TextPart("utf-8", "x")>>]
      [] OTHER ->
           [subject |-> <<StrPart("Re: Hi")>>,
            from |-> <<StrPart("c@z.net")>>,
            to |-> <<StrPart("a@x.com")>>,
            date |-> "aware",
            multipart |-> FALSE,
            parts |-> <<TextPart("x-unknown", "zz")>>]

----------------------------------------------------------------------------
(* Bounds of the model *)

MaxBox == 2        \* messages a mailbox holds at a time
MaxArrivals == 2   \* messages the server ever delivers
MaxCand == 1       \* candidates of find_sent_folder that may exist

----------------------------------------------------------------------------
(* The poll loop *)

CHECK_INTERVAL == 60
AGE_LIMIT == 300

\* The age of a message is kept as one of two values, 0 for "at most the
\* limit" and OLD for "past the limit": the code reads an age only in
\* time_diff.total_seconds() > 300, and the time between two polls is the
\* sleep plus network calls of any duration.
OLD == AGE_LIMIT + 1

possible_sent_folders ==
    <<"Sent", "INBOX.Sent", "INBOX/Sent", "Sent Items", "Sent Messages",
      "INBOX.Sent Items", "INBOX.Sent Messages">>

\* the results of mail.select over the candidates: "OK", "NO" or "EXC"
SelectVectors ==
    {o \in [1..Len(possible_sent_folders) -> {"OK", "NO", "EXC"}] :
        \A i \in 1..Len(possible_sent_folders) : i > MaxCand => o[i] = "NO"}

\* EmailMonitor.find_sent_folder: o[i] is what select answers for the
\* i-th candidate
RECURSIVE FindFrom(_, _)
FindFrom(o, i) ==
    IF i > Len(possible_sent_folders) THEN None
    ELSE IF o[i] = "OK" THEN possible_sent_folders[i]
    ELSE FindFrom(o, i + 1)

\* a variant of find_sent_folder without its try/except: a select that
\* raises ends the search
find_sent_folder_unguarded(o) ==
    IF \E i \in DOMAIN o : o[i] = "EXC" /\ \A j \in 1..(i - 1) : o[j] = "NO"
    THEN None ELSE FindFrom(o, 1)

find_sent_folder(o) == FindFrom(o, 1)

\* the folders find_sent_folder calls mail.select on, in the order of the
\* calls: the loop of lines 367-379 ends at the first `return folder`
RECURSIVE SelectCallsFrom(_, _)
SelectCallsFrom(o, i) ==
    IF i > Len(possible_sent_folders) THEN <<>>
    ELSE IF o[i] = "OK" THEN <<possible_sent_folders[i]>>
    ELSE <<possible_sent_folders[i]>> \o SelectCallsFrom(o, i + 1)

\* the mailbox of the server a folder name stands for
BoxOf(folder) == IF folder = "INBOX" THEN "inbox" ELSE "sent"

\* reg.get(folder, set())
RegOf(reg, folder) == IF folder \in DOMAIN reg THEN reg[folder] ELSE {}

\* self.processed_uids.get(folder, set())
Registry(folder) == RegOf(processed_uids, folder)

\* a variant of IsProcessed that looks the identifier up under the key
\* __init__ creates for the folder's kind ('INBOX' or 'SENT')
IsProcessedByKind(folder, id) ==
    id \in Registry(IF folder = "INBOX" THEN "INBOX" ELSE "SENT")

\* line 407: email_id in self.processed_uids.get(folder, set())
IsProcessed(folder, id) == id \in Registry(folder)

\* a variant of WithKey without the `if`: the folder's set is made anew at
\* every visit
WithFreshKey(reg, folder) ==
    [f \in DOMAIN reg \cup {folder} |-> IF f = folder THEN {} ELSE reg[f]]

\* if folder not in self.processed_uids: self.processed_uids[folder] = set()
WithKey(reg, folder) ==
    IF folder \in DOMAIN reg THEN reg ELSE reg @@ (folder :> {})

\* a variant of AddUid that records the identifier under the key __init__
\* creates for the folder's kind ('INBOX' or 'SENT')
AddUidByKind(reg, folder, id) ==
    LET k == IF folder = "INBOX" THEN "INBOX" ELSE "SENT"
    IN [WithKey(reg, k) EXCEPT ![k] = @ \cup {id}]

\* self.processed_uids[folder].add(email_id)
AddUid(reg, folder, id) ==
    [WithKey(reg, folder) EXCEPT ![folder] = @ \cup {id}]

\* mail.search(None, 'UNSEEN' | 'ALL'): the sequence numbers that match
RECURSIVE SearchFrom(_, _, _)
SearchFrom(msgs, criteria, i) ==
    IF i > Len(msgs) THEN <<>>
    ELSE (IF criteria = "ALL" \/ ~msgs[i].seen THEN <<i>> ELSE <<>>)
            \o SearchFrom(msgs, criteria, i + 1)

search_criteria(email_type) ==
    IF email_type = "received" THEN "UNSEEN" ELSE "ALL"

\* a variant of SleepInterval that backs off after a failed cycle
SleepIntervalBackoff(in_handler) ==
    IF in_handler THEN 2 * CHECK_INTERVAL ELSE CHECK_INTERVAL

\* time.sleep(self.check_interval), in the loop body and in its handler
SleepInterval(in_handler) == CHECK_INTERVAL

\* what the last step of the program did: the operation, the folder, identifier and message it
\* was about, the result of its IMAP call, and whether a KeyboardInterrupt
\* arrived in one of its bare try-blocks
Ev(op, folder, id, mid, res, intr) ==
    [op |-> op, folder |-> folder, id |-> id, mid |-> mid, res |-> res,
     hook |-> None, intr |-> intr]
NoEv == Ev("none", None, 0, 0, None, FALSE)

Init ==
    /\ pc = "connect"
    /\ first_run = TRUE
    /\ sent_folder = None
    /\ mail = "unbound"
    /\ processed_uids = [f \in {"INBOX", "SENT"} |-> {}]
    /\ stage = "select"
    /\ email_ids = <<>>
    /\ box = [b \in {"inbox", "sent"} |-> <<>>]
    /\ nextMid = 1
    /\ posts = {}
    /\ ev = NoEv
    /\ checked = {}
    /\ failed = FALSE
    /\ lastSleep = 0
    /\ fn = None

\* a variant of AfterConnect that never clears first_run's effect: the
\* discovery block runs in every cycle
AfterConnectRediscover(ok) == IF ~ok THEN "handler" ELSE "discover"

\* lines 467-489: where the loop goes after connect_imap returned (ok) or
\* raised
AfterConnect(ok) ==
    IF ~ok THEN "handler"
    ELSE IF first_run THEN "discover" ELSE "check_inbox"

\* the server and the network have settled: from here on connect, select,
\* search and fetch succeed
Settled == fn = "settled"

\* whether connect_imap returns (TRUE) or raises
ConnectAnswers == IF Settled THEN {TRUE} ELSE BOOLEAN

\* mail = self.connect_imap()
Connect ==
    /\ pc = "connect"
    /\ \E ok \in ConnectAnswers :
         /\ mail' = IF ok THEN "open" ELSE mail
         /\ pc' = AfterConnect(ok)
         /\ ev' = Ev("connect", None, 0, 0, IF ok THEN "OK" ELSE "EXC", FALSE)
    /\ UNCHANGED <<first_run, sent_folder, processed_uids, stage, email_ids,
                   box, nextMid, posts, checked, failed, lastSleep, fn>>

\* a variant of FirstRunAfterDiscover that never clears the flag
FirstRunKept == TRUE

\* line 487: first_run = False, the last statement of the discovery block
FirstRunAfterDiscover == FALSE

\* the `if first_run:` block; get_available_folders only logs
Discover ==
    /\ pc = "discover"
    /\ \E o \in SelectVectors :
         /\ sent_folder' = find_sent_folder(o)
         /\ ev' = Ev("discover", find_sent_folder(o), 0, 0, "OK", FALSE)
    /\ first_run' = FirstRunAfterDiscover
    /\ pc' = "check_inbox"
    /\ UNCHANGED <<mail, processed_uids, stage, email_ids, box, nextMid,
                   posts, checked, failed, lastSleep, fn>>

\* the folder and kind the loop is checking
CurFolder == IF pc = "check_inbox" THEN "INBOX" ELSE sent_folder
CurType == IF pc = "check_inbox" THEN "received" ELSE "sent"

\* a variant of AfterCheck without the `if sent_folder:` guard
AfterCheckUnguarded ==
    IF pc = "check_inbox" THEN "check_sent" ELSE "disconnect"

\* lines 491-496: what follows a check_folder call in monitor_emails
AfterCheck ==
    IF pc = "check_inbox" /\ sent_folder # None
    THEN "check_sent" ELSE "disconnect"

\* a variant of CheckEnd without the try/except of check_folder: an
\* exception reaches the handler of monitor_emails
CheckEndPropagates(how) ==
    IF how = "exception" THEN "handler" ELSE AfterCheck

\* where control goes when check_folder ends: by `return True` ("done"),
\* by `return False` on a non-OK status ("status"), or by an exception
\* ("exception"), which lines 454-456 turn into `return False`
CheckEnd(how) == AfterCheck

\* check_folder ends: control goes back to monitor_emails
Return(how) ==
    /\ pc' = CheckEnd(how)
    /\ stage' = "select"
    /\ email_ids' = <<>>

\* the loop of check_folder goes on to the next identifier, or ends
Continue ==
    IF Tail(email_ids) = <<>> THEN Return("done")
    ELSE /\ email_ids' = Tail(email_ids)
         /\ UNCHANGED <<pc, stage>>

SelectOutcomes == {"OK", "SELECT_NO", "SELECT_EXC", "SEARCH_NO", "SEARCH_EXC"}

SelectAnswers == IF Settled THEN {"OK"} ELSE SelectOutcomes

\* check_folder up to its for-loop: mail.select(folder), mail.search
CheckSelect ==
    /\ pc \in {"check_inbox", "check_sent"}
    /\ stage = "select"
    /\ \E out \in SelectAnswers :
         LET ids == SearchFrom(box[BoxOf(CurFolder)], search_criteria(CurType), 1)
         IN /\ IF out = "OK" /\ ids # <<>>
               THEN /\ stage' = "loop"
                    /\ email_ids' = ids
                    /\ pc' = pc
               ELSE Return(CASE out \in {"SELECT_EXC", "SEARCH_EXC"} -> "exception"
                             [] out \in {"SELECT_NO", "SEARCH_NO"} -> "status"
                             [] OTHER -> "done")
            /\ ev' = Ev("select", CurFolder, 0, 0, out, FALSE)
    /\ checked' = checked \cup {CurType}
    /\ UNCHANGED <<first_run, sent_folder, mail, processed_uids, box, nextMid,
                   posts, failed, lastSleep, fn>>

\* lines 424-429: the date of the message; a raise of parsedate_to_datetime,
\* or anything else raised inside the try, gives the current time
email_date(t, raised) ==
    IF raised \/ t.date = "bad" THEN [src |-> "now", tzinfo |-> "utc"]
    ELSE [src |-> "header",
          tzinfo |-> IF t.date = "naive" THEN "utc" ELSE "header"]

\* (datetime.now(timezone.utc) - email_date).total_seconds()
time_diff(date, age) == IF date.src = "now" THEN 0 ELSE age

\* lines 417-421 and 437 on each deliverable message: the decoded Subject,
\* From and To, and the plain text of the body (each may have raised)
Parsed[t \in Templates] ==
    [subject |-> decode_header_value(Template(t).subject),
     sender |-> decode_header_value(Template(t).from),
     recipient |-> decode_header_value(Template(t).to),
     content |-> get_plain_text_content(Template(t))]

\* lines 439-444: the payload of a message that decoded, by kind of folder
\* and by whether the date try-block was cut short
Payload[email_type \in {"received", "sent"}, t \in Templates, raised \in BOOLEAN] ==
    IF email_type = "received"
    THEN create_embed("received", Parsed[t].subject.val, Parsed[t].sender.val,
                      "", Parsed[t].content.val,
                      email_date(Template(t), raised))
    ELSE create_embed("sent", Parsed[t].subject.val, "",
                      Join(", ", parse_email_addresses(Parsed[t].recipient.val)),
                      Parsed[t].content.val,
                      email_date(Template(t), raised))

\* the body of check_folder's for-loop for one identifier: what it does
\* with message m, given the outcome f of mail.fetch and whether the date
\* try-block was cut short (intr)
\*   kind "skip":    already in the registry
\*        "nofetch": fetch answered non-OK
\*        "abort":   an exception left the loop
\*        "old":     a sent message past the age limit
\*        "post":    a notification is posted
Visit(email_type, registered, m, f, intr) ==
    LET d == Parsed[m.tpl]
        date == email_date(Template(m.tpl), intr)
    IN IF registered THEN "skip"
       ELSE IF f = "NO" THEN "nofetch"
       ELSE IF f \in {"EXC", "EMPTY"} THEN "abort"
       ELSE IF d.subject.exc \/ d.sender.exc \/ d.recipient.exc THEN "abort"
       ELSE IF email_type = "sent" /\ time_diff(date, m.age) > AGE_LIMIT
            THEN "old"
       ELSE IF d.content.exc THEN "abort"
       ELSE "post"

\* a variant of MarkAfterPost that records the identifier only when the
\* webhook call succeeded
MarkOnlyDelivered(reg, folder, id, delivered) ==
    IF delivered THEN AddUid(reg, folder, id) ELSE WithKey(reg, folder)

\* lines 446-450: the registry after the webhook call returned `delivered`
MarkAfterPost(reg, folder, id, delivered) == AddUid(reg, folder, id)

\* a variant of MarkAfterNoFetch that records the identifier before the
\* fetch
MarkBeforeFetch(reg, folder, id) == AddUid(reg, folder, id)

\* lines 410-415: the registry after a fetch that answered non-OK: the
\* folder's key exists, the identifier is not added
MarkAfterNoFetch(reg, folder, id) == WithKey(reg, folder)

\* mail.fetch: "OK", "NO", "EXC" (it raises) or "EMPTY" (OK with no
\* message data, so that msg_data[0][1] raises)
FetchOutcomes == {"OK", "NO", "EXC", "EMPTY"}

FetchAnswers == IF Settled THEN {"OK"} ELSE FetchOutcomes

\* a FETCH of RFC822 on a mailbox selected read-write sets \Seen; the flag
\* is kept for the inbox only, the search of a sent folder ('ALL') ignores it
MarkSeen(msgs, id) == [msgs EXCEPT ![id].seen = TRUE]

\* one iteration of check_folder's for-loop
CheckMessage ==
    /\ pc \in {"check_inbox", "check_sent"}
    /\ stage = "loop"
    /\ LET folder == CurFolder
           id == Head(email_ids)
           b == BoxOf(folder)
           m == box[b][id]
       IN \E f \in FetchAnswers, intr \in BOOLEAN, resp \in PostOutcomes :
            LET kind == Visit(CurType, IsProcessed(folder, id), m, f, intr)
                fetched == kind # "skip" /\ f = "OK"
                swallowed == intr /\ fetched /\ kind \in {"old", "post"}
            IN /\ processed_uids' =
                    CASE kind = "skip" -> processed_uids
                      [] kind = "old" -> AddUid(processed_uids, folder, id)
                      [] kind = "post" ->
                            MarkAfterPost(processed_uids, folder, id,
                                          send_discord_webhook(resp))
                      [] kind = "nofetch" ->
                            MarkAfterNoFetch(processed_uids, folder, id)
                      [] OTHER -> WithKey(processed_uids, folder)
               /\ box' = IF fetched /\ b = "inbox"
                         THEN [box EXCEPT ![b] = MarkSeen(@, id)]
                         ELSE box
               /\ posts' = IF kind = "post"
                           THEN posts \cup
                                  {[folder |-> folder, id |-> id, mid |-> m.mid,
                                    embed |-> Payload[CurType, m.tpl, intr],
                                    n |-> 1 + Cardinality(
                                            {p \in posts : /\ p.folder = folder
                                                           /\ p.id = id})]}
                           ELSE posts
               /\ IF kind = "abort" THEN Return("exception") ELSE Continue
               /\ ev' = [Ev(kind, folder, id, m.mid,
                            IF kind = "skip" THEN None ELSE f, swallowed)
                           EXCEPT !.hook =
                             IF kind # "post" THEN None
                             ELSE IF send_discord_webhook(resp)
                                  THEN "sent" ELSE "dropped"]
    /\ UNCHANGED <<first_run, sent_folder, mail, nextMid, checked, failed,
                   lastSleep, fn>>

\* a variant of MailAfterDisconnect with mail.logout() inside the
\* try-block, as in the handler: it is skipped when mail.close() is cut
\* short
MailAfterGuardedLogout(intr) == IF intr THEN "open" ELSE "LOGOUT"

\* line 503: mail.logout() is called whatever happened in the try-block of
\* mail.close(); the session is in state LOGOUT whether the call returns
\* or raises
MailAfterDisconnect(intr) == "LOGOUT"

\* lines 498-503: mail.close() inside try/except, then mail.logout()
Disconnect ==
    /\ pc = "disconnect"
    /\ \E intr \in BOOLEAN, logoutOk \in BOOLEAN :
         /\ pc' = IF logoutOk THEN "sleep" ELSE "handler"
         /\ ev' = Ev("disconnect", None, 0, 0,
                     IF logoutOk THEN "OK" ELSE "EXC", intr)
         /\ mail' = MailAfterDisconnect(intr)
    /\ UNCHANGED <<first_run, sent_folder, processed_uids, stage, email_ids,
                   box, nextMid, posts, checked, failed, lastSleep, fn>>

\* a variant of AfterHandler that raises the exception again
AfterHandlerReraise == "stopped"

\* lines 521-522: the handler sleeps and the while-loop goes on
AfterHandler == "sleep"

\* lines 513-520: the handler of `except Exception`; mail.close() raises
\* on an unbound name and on a session that is logged out or has no mailbox
\* selected, and mail.logout() is skipped when it does
Handler ==
    /\ pc = "handler"
    /\ \E intr \in BOOLEAN, closeOk \in BOOLEAN :
         /\ mail' = IF mail = "open" /\ closeOk /\ ~intr
                    THEN "LOGOUT" ELSE mail
         /\ ev' = Ev("handler", None, 0, 0, None, intr)
    /\ failed' = TRUE
    /\ pc' = AfterHandler
    /\ UNCHANGED <<first_run, sent_folder, processed_uids, stage, email_ids,
                   box, nextMid, posts, checked, lastSleep, fn>>

\* the messages of a mailbox later on: those in S have passed the limit
Aged(msgs, S) ==
    [i \in 1..Len(msgs) |->
        IF i \in S THEN [msgs[i] EXCEPT !.age = OLD] ELSE msgs[i]]

\* time.sleep(self.check_interval), line 507 or line 522; the cycle is
\* over when it returns
Sleep ==
    /\ pc = "sleep"
    /\ lastSleep' = SleepInterval(failed)
    /\ checked' = {}
    /\ failed' = FALSE
    /\ \E S \in SUBSET {i \in 1..Len(box["sent"]) : box["sent"][i].age # OLD} :
         box' = [box EXCEPT !["sent"] = Aged(@, S)]
    /\ pc' = "connect"
    /\ ev' = Ev("sleep", None, 0, 0, None, FALSE)
    /\ UNCHANGED <<first_run, sent_folder, mail, processed_uids, stage,
                   email_ids, nextMid, posts, fn>>

\* a KeyboardInterrupt outside the bare try-blocks: `except
\* KeyboardInterrupt: break`, or, from the handler, out of monitor_emails
Interrupt ==
    /\ pc # "stopped"
    /\ pc' = "stopped"
    /\ ev' = Ev("interrupt", None, 0, 0, None, TRUE)
    /\ UNCHANGED <<first_run, sent_folder, mail, processed_uids, stage,
                   email_ids, box, nextMid, posts, checked, failed,
                   lastSleep, fn>>

----------------------------------------------------------------------------
(* The mail server, between two polls *)

\* a message is delivered to a mailbox; a sent message is new or a backlog
Arrive ==
    /\ pc = "connect"
    /\ nextMid <= MaxArrivals
    /\ \E b \in {"inbox", "sent"}, t \in Templates, a \in {0, OLD} :
         /\ Len(box[b]) < MaxBox
         /\ b = "inbox" => a = 0
         /\ box' = [box EXCEPT ![b] =
                      Append(@, [mid |-> nextMid, tpl |-> t, seen |-> FALSE,
                                 age |-> a])]
    /\ nextMid' = nextMid + 1
    /\ UNCHANGED <<pc, first_run, sent_folder, mail, processed_uids, stage,
                   email_ids, posts, ev, checked, failed, lastSleep, fn>>

RemoveAt(msgs, i) == SubSeq(msgs, 1, i - 1) \o SubSeq(msgs, i + 1, Len(msgs))

\* another client deletes a message: the later ones are renumbered
Expunge ==
    /\ pc = "connect"
    /\ \E b \in {"inbox", "sent"} :
         \E i \in 1..Len(box[b]) :
            box' = [box EXCEPT ![b] = RemoveAt(@, i)]
    /\ UNCHANGED <<pc, first_run, sent_folder, mail, processed_uids, stage,
                   email_ids, nextMid, posts, ev, checked, failed,
                   lastSleep, fn>>

Next ==
    \/ Connect
    \/ Discover
    \/ CheckSelect
    \/ CheckMessage
    \/ Disconnect
    \/ Handler
    \/ Sleep
    \/ Interrupt
    \/ Arrive
    \/ Expunge

Spec == Init /\ [][Next]_vars

\* the steps of the poll loop itself
LoopStep ==
    Connect \/ Discover \/ CheckSelect \/ CheckMessage \/ Disconnect
        \/ Handler \/ Sleep

\* the loop is sequential and every call in it returns or raises: a step
\* that stays possible is taken
FairSpec == Spec /\ WF_vars(LoopStep)

\* the failures of the server and of the network come to an end
Settle ==
    /\ fn = None
    /\ fn' = "settled"
    /\ UNCHANGED progVars

NextSettling == Next \/ Settle

\* the loop keeps stepping, and from some point on connect, select, search
\* and fetch succeed
FairSettling ==
    Init /\ [][NextSettling]_vars /\ WF_vars(LoopStep) /\ WF_vars(Settle)

----------------------------------------------------------------------------
(* create_embed on its own *)

MaxShort == 2   \* bodies of 0..MaxShort characters
MaxOver == 2    \* bodies within MaxOver characters of max_content_length

\* a text of n characters
RECURSIVE Chars(_)
Chars(n) ==
    IF n = 0 THEN ""
    ELSE IF n = 1 THEN "x"
    ELSE LET h == Chars(n \div 2)
         IN h \o h \o (IF n % 2 = 1 THEN "x" ELSE "")

\* a body of n characters, the last one marked
Body(n) == IF n = 0 THEN "" ELSE Chars(n - 1) \o "$"

BodyLengths ==
    (0..MaxShort)
        \cup ((max_content_length - MaxOver)..(max_content_length + MaxOver))

EmbedInputs ==
    [email_type : {"received", "sent"},
     subject : {"", "Hi"},
     who : {"a@x.com", "Bob <b@y.org>"},
     content : {Body(n) : n \in BodyLengths}]

NoEmbed == [title |-> None, fields |-> <<>>]

InitEmbed ==
    /\ pc = "stopped"
    /\ first_run = TRUE
    /\ sent_folder = None
    /\ mail = "unbound"
    /\ processed_uids = [f \in {"INBOX", "SENT"} |-> {}]
    /\ stage = "select"
    /\ email_ids = <<>>
    /\ box = [b \in {"inbox", "sent"} |-> <<>>]
    /\ nextMid = 1
    /\ posts = {}
    /\ ev = NoEv
    /\ checked = {}
    /\ failed = FALSE
    /\ lastSleep = 0
    /\ \E i \in EmbedInputs : fn = [in |-> i, done |-> FALSE, out |-> NoEmbed]

\* embed = self.create_embed(...) on the drawn input
ApplyEmbed ==
    /\ ~fn.done
    /\ fn' = [fn EXCEPT
                !.done = TRUE,
                !.out = create_embed(fn.in.email_type, fn.in.subject,
                                     fn.in.who, fn.in.who, fn.in.content,
                                     [src |-> "header", tzinfo |-> "utc"])]
    /\ UNCHANGED <<pc, first_run, sent_folder, mail, processed_uids, stage,
                   email_ids, box, nextMid, posts, ev, checked, failed,
                   lastSleep>>

NextEmbed == ApplyEmbed

SpecEmbed == InitEmbed /\ [][NextEmbed]_vars

----------------------------------------------------------------------------
(* The pure functions on their own: the loop is at rest *)

AtRest ==
    /\ pc = "stopped"
    /\ first_run = TRUE
    /\ sent_folder = None
    /\ mail = "unbound"
    /\ processed_uids = [f \in {"INBOX", "SENT"} |-> {}]
    /\ stage = "select"
    /\ email_ids = <<>>
    /\ box = [b \in {"inbox", "sent"} |-> <<>>]
    /\ nextMid = 1
    /\ posts = {}
    /\ ev = NoEv
    /\ checked = {}
    /\ failed = FALSE
    /\ lastSleep = 0

\* what mail.select may answer for each of the candidates
AllSelectVectors ==
    [1..Len(possible_sent_folders) -> {"OK", "NO", "EXC"}]

InitFind ==
    /\ AtRest
    /\ \E o \in AllSelectVectors :
         fn = [in |-> o, done |-> FALSE, out |-> None, calls |-> <<>>]

\* sent_folder = self.find_sent_folder(mail) against a server that answers
\* fn.in
ApplyFind ==
    /\ ~fn.done
    /\ fn' = [fn EXCEPT !.done = TRUE,
                        !.out = find_sent_folder(fn.in),
                        !.calls = SelectCallsFrom(fn.in, 1)]
    /\ UNCHANGED progVars

NextFind == ApplyFind

SpecFind == InitFind /\ [][NextFind]_vars

----------------------------------------------------------------------------
(* send_discord_webhook on its own *)

\* what requests.post may do: answer with any HTTP status, or raise
Responses ==
    {[exc |-> FALSE, status |-> c] : c \in 100..599}
        \cup {[exc |-> TRUE, status |-> 0]}

InitHook ==
    /\ AtRest
    /\ fn = [at |-> "call", attempts |-> 0, resp |-> None, out |-> None]

\* lines 267-275: the payload is built and requests.post is called
HookPost ==
    /\ fn.at = "call"
    /\ \E r \in Responses :
         fn' = [fn EXCEPT !.at = "posted", !.attempts = @ + 1, !.resp = r]
    /\ UNCHANGED progVars

\* lines 277-289: the status is tested, or the exception is caught, and
\* the function returns
HookReturn ==
    /\ fn.at = "posted"
    /\ fn' = [fn EXCEPT !.at = "returned",
                        !.out = send_discord_webhook(fn.resp)]
    /\ UNCHANGED progVars

NextHook == HookPost \/ HookReturn

SpecHook == InitHook /\ [][NextHook]_vars

----------------------------------------------------------------------------
(* The console log buffer: HealthServerLog, called by the poll loop, and  *)
(* HEALTHSERVER_CONSOLE_CONNECT, run by the web server for each client    *)

MaxClients == 1      \* web clients connecting at the same time
CONSOLE_MAXLEN == 10 \* CONSOLE_BUFFER = deque(maxlen=10)

Poll == <<"poll", 0>>
Clients == {<<"web", i>> : i \in 1..MaxClients}
Threads == {Poll} \cup Clients

\* deque.append on a deque with maxlen: the oldest line falls out
DequeAppend(buf, line) ==
    IF Len(buf) < CONSOLE_MAXLEN THEN Append(buf, line)
    ELSE Append(Tail(buf), line)

\* CONSOLE_LOCK when no thread holds it
Unlocked == <<"unlocked", 0>>

InitConsole ==
    /\ AtRest
    /\ fn = [CONSOLE_LOCK |-> Unlocked,
             CONSOLE_BUFFER |-> <<>>,
             at |-> [t \in Threads |-> "idle"],
             exc |-> [t \in Threads |-> FALSE],
             unlocked |-> {}]

\* a thread enters its function: lines 21-22 (the message is formatted) or
\* line 147 (print)
Call(t) ==
    /\ fn.at[t] = "idle"
    /\ fn' = [fn EXCEPT !.at[t] = "with", !.exc[t] = FALSE]
    /\ UNCHANGED progVars

\* `with CONSOLE_LOCK:` (line 24 or 148): Lock.acquire blocks while the
\* lock is held
Acquire(t) ==
    /\ fn.at[t] = "with"
    /\ fn.CONSOLE_LOCK = Unlocked
    /\ fn' = [fn EXCEPT !.CONSOLE_LOCK = t,
                        !.at[t] = IF t = Poll THEN "append" ELSE "emit"]
    /\ UNCHANGED progVars

\* the threads that have touched the buffer without holding the lock
Touch(t) ==
    IF fn.CONSOLE_LOCK = t THEN fn.unlocked ELSE fn.unlocked \cup {t}

\* line 25: CONSOLE_BUFFER.append(formatted_message)
BufferAppend(t) ==
    /\ fn.at[t] = "append"
    /\ fn' = [fn EXCEPT !.CONSOLE_BUFFER = DequeAppend(@, "line"),
                        !.at[t] = "emit",
                        !.unlocked = Touch(t)]
    /\ UNCHANGED progVars

\* lines 26-29 and 149-152: emit(..., "history": list(CONSOLE_BUFFER)); the
\* emit may raise
Emit(t) ==
    /\ fn.at[t] = "emit"
    /\ \E raised \in BOOLEAN :
         fn' = [fn EXCEPT !.at[t] = "exit",
                          !.exc[t] = raised,
                          !.unlocked = Touch(t)]
    /\ UNCHANGED progVars

\* a variant of LockAfterExit that releases on the normal exit only
LockAfterNormalExit(t, raised) == IF raised THEN t ELSE Unlocked

\* the end of the with-block: __exit__ releases the lock whether the block
\* ended normally or by an exception
LockAfterExit(t, raised) == Unlocked

\* the with-block is left and the function returns or raises
Exit(t) ==
    /\ fn.at[t] = "exit"
    /\ fn' = [fn EXCEPT !.CONSOLE_LOCK = LockAfterExit(t, fn.exc[t]),
                        !.at[t] = "idle"]
    /\ UNCHANGED progVars

\* the steps of a thread inside its function
Run(t) == Acquire(t) \/ BufferAppend(t) \/ Emit(t) \/ Exit(t)

NextConsole == \E t \in Threads : Call(t) \/ Run(t)

SpecConsole == InitConsole /\ [][NextConsole]_vars

\* a thread inside its function goes on, and a thread waiting for a lock
\* that is free again and again gets it
FairConsole ==
    /\ SpecConsole
    /\ \A t \in Threads : WF_vars(Run(t)) /\ SF_vars(Acquire(t))

----------------------------------------------------------------------------
(* Properties *)

\* the steps of check_folder that call mail.fetch for an identifier
FetchOps == {"nofetch", "abort", "old", "post"}

\* C1: once an identifier is in the registry of a folder, no later step of
\* check_folder on that folder fetches that identifier or posts a
\* notification for it.
C1_NeverReprocessed ==
    [][/\ ev'.op \in FetchOps => ~(ev'.id \in Registry(ev'.folder))
       /\ \A p \in posts' \ posts : ~(p.id \in Registry(p.folder))]_vars

\* C1 witness: a scan met an identifier of the registry and passed over it
C1_Witness == ev.op = "skip" /\ ev.id \in Registry(ev.folder)

\* the Content field of a payload
ContentOf(embed) == embed.fields[4].value

EndsWith(s, suffix) ==
    /\ Len(s) >= Len(suffix)
    /\ SubSeq(s, Len(s) - Len(suffix) + 1, Len(s)) = suffix

\* C3 (as claimed): the Content field of a payload is never longer than
\* max_content_length; a longer body is cut and ends with the truncation
\* marker, and a body within the maximum is passed through unchanged.
C3_ContentBounded ==
    fn.done =>
        /\ Len(ContentOf(fn.out)) <= max_content_length
        /\ Len(fn.in.content) > max_content_length
              => EndsWith(ContentOf(fn.out), TruncMarker)
        /\ Len(fn.in.content) <= max_content_length
              => ContentOf(fn.out) = fn.in.content

\* C5: a failed webhook POST still puts the identifier into the registry,
\* and over the whole run at most one POST is made per (folder, identifier).
C5_AtMostOnePost ==
    /\ \A p \in posts : p.n = 1 /\ p.id \in Registry(p.folder)
    /\ ev.hook = "dropped" => ev.id \in Registry(ev.folder)

\* C5 witness: a POST failed and its identifier is in the registry
C5_Witness ==
    /\ ev.op = "post"
    /\ ev.hook = "dropped"
    /\ ev.id \in Registry(ev.folder)
    /\ \E p \in posts : p.folder = ev.folder /\ p.id = ev.id

\* the message check_folder is about to visit
CurMsg == box[BoxOf(CurFolder)][Head(email_ids)]

\* the step fetched the message it visited, with status OK and its data
FetchedOK(e) == e.op \in FetchOps /\ e.res = "OK"

\* C2 (as claimed): every sent-folder message that is scanned and is more
\* than 300 seconds old by its Date header has its identifier put into the
\* registry, and no webhook POST is made for it.  (The date is the one the
\* header carries: the parse neither failed nor was cut short.)
C2_OldSentMarkedSilently ==
    [][(/\ pc = "check_sent"
        /\ stage = "loop"
        /\ FetchedOK(ev')
        /\ ~ev'.intr
        /\ Template(CurMsg.tpl).date # "bad"
        /\ CurMsg.age > AGE_LIMIT)
          => /\ ev'.id \in RegOf(processed_uids', ev'.folder)
             /\ posts' = posts]_vars

\* decoding the fetched message raised: its bytes (no message data), its
\* headers or its body
DecodeFailed(e) ==
    \/ e.op = "abort" /\ e.res = "OK"
    \/ e.op = "abort" /\ e.res = "EMPTY"

\* C4 (as claimed): when decoding a fetched message fails, that message
\* alone is skipped: its identifier goes into the registry and the scan
\* goes on with the remaining identifiers of the folder.
C4_DecodeFailureSkipsOne ==
    [][(pc \in {"check_inbox", "check_sent"} /\ DecodeFailed(ev'))
          => /\ ev'.id \in RegOf(processed_uids', ev'.folder)
             /\ Tail(email_ids) # <<>>
                   => /\ pc' = pc
                      /\ stage' = "loop"
                      /\ email_ids' = Tail(email_ids)]_vars

\* the select or the search of a folder check failed
SelectFailed(e) == e.op = "select" /\ e.res # "OK"

\* C6: a failed select or search of INBOX, by status or by exception, does
\* not abort the cycle: the resolved sent folder is checked next, and the
\* disconnect and the sleep follow.
C6_InboxFailureNotFatal ==
    [][/\ (pc = "check_inbox" /\ SelectFailed(ev'))
             => pc' = IF sent_folder # None THEN "check_sent" ELSE "disconnect"
       /\ (pc = "check_sent" /\ pc' # pc) => pc' \in {"disconnect", "stopped"}
       /\ (pc = "disconnect" /\ pc' # pc)
             => pc' \in {"sleep", "handler", "stopped"}
       /\ (pc = "handler" /\ pc' # pc) => pc' \in {"sleep", "stopped"}]_vars

\* C6 witness: the sent folder is about to be checked right after the
\* select of INBOX raised
C6_Witness ==
    /\ pc = "check_sent"
    /\ ev.op = "select"
    /\ ev.folder = "INBOX"
    /\ ev.res = "SELECT_EXC"

\* discovery has run and found no sent folder
NoSent == ~first_run /\ sent_folder = None

\* C7: when no candidate sent folder can be selected the loop keeps running
\* with inbox-only checks: no cycle checks a sent folder, the resolution is
\* never redone, every cycle that connects checks INBOX, and the loop comes
\* back to CONNECT and leaves it again for as long as it is not interrupted.
C7_InboxOnlyForever ==
    /\ [](NoSent => pc # "check_sent" /\ ~("sent" \in checked))
    /\ [](NoSent /\ pc = "disconnect" => "received" \in checked)
    /\ [][NoSent => NoSent' /\ pc' # "discover"]_vars
    /\ [][pc' = "stopped" => ev'.op = "interrupt"]_vars
    /\ (NoSent ~> (pc = "connect" \/ pc = "stopped"))
    /\ ((NoSent /\ pc = "connect")
           ~> (pc = "check_inbox" \/ pc = "handler" \/ pc = "stopped"))

\* C7 witness: a later cycle, inbox-only, after a discovery that found
\* nothing
C7_Witness ==
    /\ NoSent
    /\ pc = "disconnect"
    /\ checked = {"received"}
    /\ lastSleep # 0

\* the From header of each deliverable message as a reader sees it
SenderOf(t) ==
    CASE t = "plain" -> "a@x.com"
      [] t = "encoded" -> "Al <al@x.com>"
      [] t = "badhdr" -> "b@y.org"
      [] OTHER -> "c@z.net"

\* the step made exactly one payload, a "Received" one naming the sender
\* of message m, and left its identifier in the INBOX registry
OneReceivedPayload(m) ==
    /\ \E p \in posts' \ posts :
         /\ posts' = posts \cup {p}
         /\ p.mid = m.mid
         /\ p.embed.title = "Received"
         /\ p.embed.fields[1].name = "From"
         /\ p.embed.fields[1].value = SenderOf(m.tpl)
    /\ ev'.id \in RegOf(processed_uids', "INBOX")

Decodable(t) == t \in {"plain", "encoded"}

C9_CycleOrder ==
    /\ [](pc \in {"discover", "check_inbox", "check_sent"} => mail = "open")
    /\ [](pc = "check_sent" => "received" \in checked /\ sent_folder # None)
    /\ [](pc = "discover" => first_run /\ checked = {})
    /\ [](pc = "check_inbox" => ~first_run /\ ~("sent" \in checked))
    /\ [][pc' # pc /\ pc' # "stopped" =>
            CASE pc = "connect" ->
                   pc' \in {IF first_run THEN "discover" ELSE "check_inbox",
                            "handler"}
              [] pc = "discover" -> pc' = "check_inbox"
              [] pc = "check_inbox" ->
                   pc' = IF sent_folder # None
                         THEN "check_sent" ELSE "disconnect"
              [] pc = "check_sent" -> pc' = "disconnect"
              [] pc = "disconnect" -> pc' \in {"sleep", "handler"}
              [] pc = "handler" -> pc' = "sleep"
              [] pc = "sleep" -> pc' = "connect"
              [] OTHER -> FALSE]_vars

\* C9 witness: a later cycle has connected, made both checks and logged
\* out, and is about to sleep
C9_Witness ==
    /\ pc = "sleep"
    /\ checked = {"received", "sent"}
    /\ ~failed
    /\ lastSleep = CHECK_INTERVAL

\* the step raised an exception
Raising(e) ==
    \/ e.op = "connect" /\ e.res = "EXC"
    \/ e.op = "disconnect" /\ e.res = "EXC"
    \/ e.op = "select" /\ e.res \in {"SELECT_EXC", "SEARCH_EXC"}
    \/ e.op = "abort"

\* C10 (as claimed): after any exception of a cycle, in connect, in a
\* folder check or in disconnect, the loop checks no further folder: it
\* is in its handler.
C10_AnyExceptionEndsCycle == Raising(ev) => pc = "handler"

\* the step raised an exception that reaches the handler of the loop
ReachesHandler(e) ==
    \/ e.op = "connect" /\ e.res = "EXC"
    \/ e.op = "disconnect" /\ e.res = "EXC"

\* C10 (amended): an exception that reaches the handler of the loop (a
\* failed connect or a failed logout) ends the cycle: no further folder is
\* checked, the handler's disconnect runs, the loop sleeps and starts again
\* at CONNECT; every sleep, after a failed cycle or not, lasts
\* check_interval.  An exception inside a folder check does not end the
\* cycle.
C10_HandlerSleepsAndRetries ==
    /\ [](ReachesHandler(ev) => pc = "handler")
    /\ [](Raising(ev) /\ ~ReachesHandler(ev) => pc # "handler")
    /\ [](lastSleep \in {0, CHECK_INTERVAL})
    /\ [][/\ (pc = "handler" /\ pc' # pc) => pc' \in {"sleep", "stopped"}
          /\ (pc = "sleep" /\ pc' # pc) =>
                /\ pc' \in {"connect", "stopped"}
                /\ pc' = "connect" => lastSleep' = CHECK_INTERVAL
          /\ failed' => pc' \in {"sleep", "stopped"}]_vars

\* C10 witness: a cycle after the first has failed, its handler has run
\* and it is about to sleep
C10_Witness ==
    /\ pc = "sleep"
    /\ ev.op = "handler"
    /\ failed
    /\ lastSleep = CHECK_INTERVAL

\* C11 (as claimed): the resolver runs in the first iteration of the loop
\* only, that is, before any sleep.
C11_FirstIterationOnly == pc = "discover" => lastSleep = 0

\* C11 (amended): the resolver runs in the first iteration whose connect
\* succeeds, and at most once: before it has run no folder is checked,
\* after it has run it is never entered again and sent_folder, found or
\* not, never changes.
C11_ResolvedOnce ==
    /\ [](first_run => /\ sent_folder = None
                       /\ pc \in {"connect", "discover", "handler", "sleep",
                                   "stopped"})
    /\ [][pc' = "discover" /\ pc # "discover"
            => first_run /\ pc = "connect" /\ ev'.res = "OK"]_vars
    /\ [][first_run' # first_run => pc = "discover" /\ ~first_run']_vars
    /\ [][~first_run => /\ sent_folder' = sent_folder
                        /\ pc' # "discover"
                        /\ ev'.op # "discover"]_vars

\* C11 witness: the resolver has run and found a folder, and a later
\* iteration is past its connect without running it again
C11_Witness ==
    /\ ~first_run
    /\ sent_folder # None
    /\ pc = "check_inbox"
    /\ ev.op = "connect"
    /\ lastSleep = CHECK_INTERVAL

\* the positions of the candidates whose select answers OK
Selectable(o) == {i \in DOMAIN o : o[i] = "OK"}

\* o with every raising select replaced by a refusing one
Refusing(o) == [i \in DOMAIN o |-> IF o[i] = "EXC" THEN "NO" ELSE o[i]]

\* C12: find_sent_folder returns the earliest candidate whose select
\* answers OK; it calls select on the candidates in list order and on none
\* after the first success; it returns None exactly when no candidate
\* selects; a select that raises counts as one that did not select.
C12_FirstSelectable ==
    fn.done =>
      /\ (fn.out = None) <=> (Selectable(fn.in) = {})
      /\ \A i \in Selectable(fn.in) :
            (\A j \in Selectable(fn.in) : i <= j)
               => /\ fn.out = possible_sent_folders[i]
                  /\ fn.calls = SubSeq(possible_sent_folders, 1, i)
      /\ Selectable(fn.in) = {} => fn.calls = possible_sent_folders
      /\ fn.out = FindFrom(Refusing(fn.in), 1)

\* C12 witness: the first candidate raises, the second refuses, the third
\* and a later one select; the third is returned after three calls
C12_Witness ==
    /\ fn.done
    /\ fn.in[1] = "EXC" /\ fn.in[2] = "NO"
    /\ fn.in[3] = "OK" /\ fn.in[5] = "OK"
    /\ fn.out = "INBOX/Sent"
    /\ Len(fn.calls) = 3

\* C13: the registry only grows: across every step, on success and on
\* every error path, each folder keeps its key and the identifiers
\* recorded for it after the step include those recorded before.
C13_RegistryGrows ==
    [][\A f \in DOMAIN processed_uids :
          /\ f \in DOMAIN processed_uids'
          /\ processed_uids[f] \subseteq processed_uids'[f]]_vars

\* C13 witness: the scan of a folder with a recorded identifier has just
\* been cut short by an exception, and the identifier is still recorded
C13_Witness ==
    /\ ev.op = "abort"
    /\ ev.id > 1
    /\ 1 \in Registry(ev.folder)

\* the step met an error: an exception, a non-OK answer of the server, or
\* a webhook call that failed
Erred(e) ==
    \/ Raising(e)
    \/ e.op = "select" /\ e.res # "OK"
    \/ e.op = "nofetch"
    \/ e.hook = "dropped"

\* C14: the loop stops only on an interrupt: no connection, select,
\* search, fetch, decode, webhook or disconnect error ends it, and after
\* any such error the loop comes back to CONNECT and attempts it, unless
\* it is interrupted first.
C14_StopsOnlyOnInterrupt ==
    /\ [][pc # "stopped" /\ pc' = "stopped" => ev'.op = "interrupt"]_vars
    /\ [][Erred(ev') => pc' # "stopped"]_vars
    /\ (Erred(ev) ~> (pc = "connect" \/ pc = "stopped"))
    /\ (pc = "connect" ~> (ev.op = "connect" \/ pc = "stopped"))

\* C14 witness: CONNECT has been attempted again in a later iteration,
\* after every earlier connect failed
C14_Witness ==
    /\ ev.op = "connect"
    /\ mail = "unbound"
    /\ lastSleep = CHECK_INTERVAL

\* the thread is inside its buffer-access section
InSection(t) == fn.at[t] \in {"append", "emit", "exit"}

\* C15: every access to the console buffer is made by the holder of
\* CONSOLE_LOCK; no two threads are inside their buffer-access sections at
\* the same time; the lock is released on every exit path, so a thread
\* that waits for the lock gets it.
C15_BufferUnderLock ==
    /\ [](fn.unlocked = {})
    /\ [](\A t, u \in Threads : InSection(t) /\ InSection(u) => t = u)
    /\ [](\A t \in Threads : InSection(t) <=> fn.CONSOLE_LOCK = t)
    /\ \A t \in Threads : (fn.at[t] = "with") ~> InSection(t)
    /\ \A t \in Threads : InSection(t) ~> (fn.at[t] = "idle")

\* C15 witness: the poll loop has left its section by an exception of
\* emit, and a web client holds the lock and reads the full buffer
C15_Witness ==
    /\ fn.at[Poll] = "idle"
    /\ fn.exc[Poll]
    /\ \E c \in Clients : fn.CONSOLE_LOCK = c /\ fn.at[c] = "emit"
    /\ Len(fn.CONSOLE_BUFFER) = CONSOLE_MAXLEN

\* C16: a call of send_discord_webhook makes exactly one POST and returns
\* a result, never an exception: TRUE exactly when the POST answered with
\* status 204, FALSE for every other status and when the POST raised.
C16_OnePostSuccessIs204 ==
    /\ fn.attempts <= 1
    /\ fn.at = "returned" =>
          /\ fn.attempts = 1
          /\ fn.out \in BOOLEAN
          /\ fn.out <=> (~fn.resp.exc /\ fn.resp.status = 204)

\* C16 witness: the POST answered 200 and the call returned a failure
C16_Witness ==
    /\ fn.at = "returned"
    /\ ~fn.resp.exc
    /\ fn.resp.status = 200
    /\ fn.out = FALSE

\* message mid lies in the INBOX, unseen, and its headers and body decode
Pending(mid) ==
    \E i \in 1..Len(box["inbox"]) :
       /\ box["inbox"][i].mid = mid
       /\ ~box["inbox"][i].seen
       /\ Decodable(box["inbox"][i].tpl)

\* a webhook POST has been attempted for message mid
Posted(mid) == \E p \in posts : p.mid = mid

\* message mid has been deleted from the INBOX
Deleted(mid) == \A i \in 1..Len(box["inbox"]) : box["inbox"][i].mid # mid

\* C17 (as claimed): every message that arrives unseen in the INBOX
\* eventually has a webhook POST attempted for it, once connect, select,
\* search and fetch succeed, also when other messages are deleted between
\* polls (here for the messages that decode, and unless the message itself
\* is deleted or the loop is interrupted).
C17_EveryUnseenNotified ==
    \A mid \in 1..MaxArrivals :
       Pending(mid) ~> (Posted(mid) \/ Deleted(mid) \/ pc = "stopped")

\* C18 (as claimed): a KeyboardInterrupt delivered during any step of the
\* loop stops the loop; none is swallowed.
C18_InterruptStops == [][ev'.intr => pc' = "stopped"]_vars

\* C19: every session opened by a successful connect has had its logout
\* attempted before the loop sleeps and before the next connect, on the
\* normal path and on the path through the handler; a connect never
\* opens a session while another is still open.
C19_LogoutBeforeSleep ==
    /\ [](pc \in {"sleep", "connect", "handler"} => mail # "open")
    /\ [][pc = "connect" /\ pc' \in {"discover", "check_inbox"}
            => mail # "open" /\ mail' = "open"]_vars
    /\ [][mail = "open" /\ mail' # "open" => ev'.op = "disconnect"]_vars

\* C19 witness: the logout of the cycle's session raised, the handler has
\* run, and the loop is about to sleep with the session logged out
C19_Witness ==
    /\ pc = "sleep"
    /\ ev.op = "handler"
    /\ checked # {}
    /\ mail = "LOGOUT"

\* the identifiers a search of the folder's mailbox returns in state msgs
Found(msgs, email_type) ==
    LET r == SearchFrom(msgs, search_criteria(email_type), 1)
    IN {r[i] : i \in DOMAIN r}

\* C20: a fetch that answers non-OK makes no notification and records no
\* identifier; the scan goes on with the next identifier when there is
\* one and ends normally otherwise; the skipped identifier is still
\* unrecorded and still returned by the folder's search, so the next
\* check of the folder takes it up again.
C20_NoFetchSkips ==
    [][ev'.op = "nofetch" =>
         /\ posts' = posts
         /\ box' = box
         /\ \A f \in DOMAIN processed_uids' :
               RegOf(processed_uids', f) = RegOf(processed_uids, f)
         /\ ev'.id = Head(email_ids)
         /\ IF Len(email_ids) > 1
            THEN email_ids' = Tail(email_ids) /\ pc' = pc /\ stage' = "loop"
            ELSE pc' = AfterCheck /\ stage' = "select"
         /\ ev'.id \notin RegOf(processed_uids', ev'.folder)
         /\ ev'.id \in Found(box'[BoxOf(ev'.folder)], CurType)]_vars

\* C20 witness: the fetch of an identifier answered non-OK, the scan is
\* at the next identifier, and the first one is not recorded
C20_Witness ==
    /\ ev.op = "nofetch"
    /\ stage = "loop"
    /\ email_ids # <<>>
    /\ ~IsProcessed(ev.folder, ev.id)
    /\ ev.id \in Found(box[BoxOf(ev.folder)], CurType)

\* every key the registry has before or after a step
KeysAcross == DOMAIN processed_uids \cup DOMAIN processed_uids'

\* C21: while check_folder works on a folder, every step leaves every other
\* folder's entry of the registry as it was (checking INBOX leaves the sent
\* folder's set alone, checking the sent folder leaves the INBOX set
\* alone), and a check that fails at select or at search leaves the whole
\* registry unchanged and posts nothing.
C21_OnlyOwnEntry ==
    /\ [][(pc \in {"check_inbox", "check_sent"}) =>
            \A f \in KeysAcross \ {CurFolder} :
               /\ f \in DOMAIN processed_uids
               /\ f \in DOMAIN processed_uids'
               /\ RegOf(processed_uids', f) = Registry(f)]_vars
    /\ [][pc = "check_inbox" =>
            RegOf(processed_uids', sent_folder) = Registry(sent_folder)]_vars
    /\ [][pc = "check_sent" =>
            RegOf(processed_uids', "INBOX") = Registry("INBOX")]_vars
    /\ [][/\ pc \in {"check_inbox", "check_sent"}
          /\ stage = "select"
          /\ ev'.op = "select"
          /\ ev'.res # "OK"
          => /\ processed_uids' = processed_uids
             /\ posts' = posts
             /\ pc' = AfterCheck]_vars

\* C21 witness: the check of the sent folder has just recorded an
\* identifier while the INBOX set holds one
C21_Witness ==
    /\ ev.op \in {"post", "old"}
    /\ ev.folder # "INBOX"
    /\ ev.id \in Registry(ev.folder)
    /\ Registry("INBOX") # {}

====
